---- MODULE Spec2Model ----
(***************************************************************************)
(* A model of libpnet's src/util.rs: the Internet checksum routines        *)
(* (sum_be_words, finalize_checksum, checksum, ipv4_checksum,              *)
(* ipv6_checksum) and the MacAddr type (new, Display, FromStr).            *)
(*                                                                         *)
(* Four specifications share the module's variables:                       *)
(*   Spec          sum_be_words / checksum on one buffer, and the          *)
(*                 write-back-and-verify round trip of a caller;           *)
(*   SpecPseudo    ipv4_checksum / ipv6_checksum on data + extra_data;     *)
(*   SpecFinalize  the fold loop of finalize_checksum, one iteration per   *)
(*                 step;                                                   *)
(*   SpecMac       MacAddr::from_str, MacAddr::new and Display.            *)
(* A variable a specification does not use keeps the value Unused.         *)
(***************************************************************************)
EXTENDS Integers, Sequences, FiniteSets

VARIABLES
    data,                \* &[u8]: the caller's buffer, a sequence of bytes
    skipword,            \* usize: the word offset handed to the call
    aligned,             \* whether data.as_ptr() is 2-byte aligned
    big_endian,          \* whether the host is big endian
    pc,                  \* the position of the caller
    result,              \* the outcome of the (first) call
    buffer,              \* the buffer after the caller wrote the checksum field
    verify,              \* the outcome of the re-run over the written buffer
    extra_data,          \* &[u8]: the second buffer of ipv4/ipv6_checksum
    extra_aligned,       \* whether extra_data.as_ptr() is 2-byte aligned
    family,              \* "ipv4" or "ipv6": which function was called
    source,              \* Ipv4Addr octets or Ipv6Addr segments
    destination,
    next_level_protocol, \* IpNextHeaderProtocol(u8)
    joined,              \* the outcome of the call on data ++ extra_data
    sum,                 \* finalize_checksum: the local `sum`
    sum_in,              \* finalize_checksum: the argument it was called with
    iters,               \* finalize_checksum: iterations of the while loop so far
    text,                \* from_str: the input string, a sequence of characters
    addr,                \* Result<MacAddr, ParseMacAddrErr> of from_str / new
    shown,               \* the string Display produced for addr
    reparsed             \* from_str(shown)

vars == <<data, skipword, aligned, big_endian, pc, result, buffer, verify,
          extra_data, extra_aligned, family, source, destination,
          next_level_protocol, joined, sum, sum_in, iters,
          text, addr, shown, reparsed>>

Unused == "unused"

----------------------------------------------------------------------------
(* Widths. A u32 is kept as the pair <<high 16 bits, low 16 bits>>, so    *)
(* that every 32-bit value is representable and additions wrap at 2^32.    *)

U8 == 256
U16 == 65536

\* x as u32, for x below 2^32
AsU32(x) == <<(x \div U16) % U16, x % U16>>

\* a + b on u32: wrapping, as a release build does (a debug build panics on
\* overflow); no sum of the model's buffers comes near 2^32
Add32(a, b) ==
    LET lo == a[2] + b[2]
        hi == a[1] + b[1] + (lo \div U16)
    IN  <<hi % U16, lo % U16>>

----------------------------------------------------------------------------
(* Bounds of the model *)

\* longest data buffer
MaxData == 3
\* largest skipword a caller passes
MaxSkip == 2
\* longest extra_data buffer
MaxExtra == 2

\* finalize_checksum is run on the 32-bit values whose halves are within
\* SumSpread of 0, of 0x8000 or of 0xFFFF
SumSpread == 2

\* most colon-separated components an input string of from_str has
MaxComponents == 7
\* most components of an input string, or bytes of a new MacAddr, that differ
\* from the plain one
MaxUnusual == 2

\* byte values the buffers of Spec are filled with
DataBytes == {0, 18, 255}
\* byte values the buffers of SpecPseudo are filled with
PseudoBytes == {1, 255}

RECURSIVE SeqsUpTo(_, _)
SeqsUpTo(S, n) ==
    IF n = 0 THEN {<<>>}
    ELSE LET shorter == SeqsUpTo(S, n - 1)
         IN  shorter \cup {Append(s, b) : s \in {t \in shorter : Len(t) = n - 1}, b \in S}

----------------------------------------------------------------------------
(* Outcomes of a call: a value, the failed assertion of sum_be_words, or   *)
(* the fault of the misaligned *const u16 reinterpretation. val is a u32   *)
(* pair for sum_be_words and a u16 for the checksum functions.             *)

Value(v) == [kind |-> "value", val |-> v]
SumAssertFailed == [kind |-> "assert_failed", val |-> <<0, 0>>]
SumMisalignedFault == [kind |-> "misaligned_fault", val |-> <<0, 0>>]
AssertFailed == [kind |-> "assert_failed", val |-> 0]
MisalignedFault == [kind |-> "misaligned_fault", val |-> 0]

----------------------------------------------------------------------------
(* finalize_checksum *)

\* the loop condition: sum >> 16 != 0
FoldCond(s) == s[1] # 0

\* a faulty fold that adds the two halves in 16 bits and loses the carry
FoldStepLosesCarry(s) == <<0, (s[1] + s[2]) % U16>>

\* one iteration: sum = (sum >> 16) + (sum & 0xFFFF)
FoldStep(s) == Add32(<<0, s[1]>>, <<0, s[2]>>)

RECURSIVE FoldLoop(_)
FoldLoop(s) == IF FoldCond(s) THEN FoldLoop(FoldStep(s)) ELSE s

\* !sum as u16: the low 16 bits of the complement of the 32-bit value
NotAsU16(s) == (U16 - 1) - s[2]

finalize_checksum(s) == NotAsU16(FoldLoop(s))

----------------------------------------------------------------------------
(* sum_be_words *)

\* *wdata.get_unchecked(i): the host-order u16 at bytes 2i, 2i+1 (0-based)
NativeWord(d, i, be) ==
    IF be THEN d[2 * i + 1] * U8 + d[2 * i + 2]
          ELSE d[2 * i + 2] * U8 + d[2 * i + 1]

\* u16::from_be: the identity on a big-endian host, a byte swap otherwise
FromBe(x, be) == IF be THEN x ELSE (x % U8) * U8 + (x \div U8)

\* while i < stop { sum += u16::from_be(wdata[i]) as u32; i += 1; }
RECURSIVE WordLoop(_, _, _, _, _)
WordLoop(d, be, i, stop, acc) ==
    IF i < stop
    THEN WordLoop(d, be, i + 1, stop, Add32(acc, AsU32(FromBe(NativeWord(d, i, be), be))))
    ELSE acc

\* if len & 1 != 0 { sum += (data[len - 1] as u32) << 8; }
OddByte(d, acc) ==
    IF Len(d) % 2 # 0 THEN Add32(acc, AsU32(d[Len(d)] * U8)) ELSE acc

\* a faulty sum_be_words that forgets the `i += 1` between its two loops, so
\* that the word at skipword is summed like every other word
SumWordsNoSkip(d, skip, be) ==
    OddByte(d, WordLoop(d, be, 0, Len(d) \div 2, <<0, 0>>))

\* the value sum_be_words returns once past its assertion: the first loop
\* runs to skipword, i += 1 steps over it, the second loop runs to the end
SumWords(d, skip, be) ==
    LET wlen == Len(d) \div 2
        first == WordLoop(d, be, 0, skip, <<0, 0>>)
        rest == WordLoop(d, be, skip + 1, wlen, first)
    IN  OddByte(d, rest)

\* a faulty assertion that takes skipword for the index of an existing word
SkipAssertStrict(d, skip) == skip < Len(d) \div 2

\* assert!(skipword <= wdata.len())
SkipAssert(d, skip) == skip <= Len(d) \div 2

\* The outcomes of sum_be_words(data, skipword). slice::from_raw_parts on a
\* pointer that is not aligned for u16 is undefined behaviour, whatever the
\* length: the build either carries on as if the reads were fine or faults.
sum_be_words(d, skip, al, be) ==
    (IF al THEN {} ELSE {SumMisalignedFault})
    \cup {IF SkipAssert(d, skip) THEN Value(SumWords(d, skip, be)) ELSE SumAssertFailed}

----------------------------------------------------------------------------
(* checksum *)

\* a fault of sum_be_words is the outcome of its caller
Propagated(o) == [kind |-> o.kind, val |-> 0]

checksum(d, skip, al, be) ==
    { IF o.kind = "value" THEN Value(finalize_checksum(o.val)) ELSE Propagated(o)
      : o \in sum_be_words(d, skip, al, be) }

----------------------------------------------------------------------------
(* ipv4_checksum, ipv6_checksum *)

\* ((octets[0] << 8) | octets[1]) + ((octets[2] << 8) | octets[3])
ipv4_word_sum(ip) == AsU32((ip[1] * U8 + ip[2]) + (ip[3] * U8 + ip[4]))

\* ip.segments().iter().map(|x| *x as u32).sum()
RECURSIVE SegmentSum(_, _)
SegmentSum(ip, n) ==
    IF n = 0 THEN <<0, 0>> ELSE Add32(SegmentSum(ip, n - 1), AsU32(ip[n]))
ipv6_word_sum(ip) == SegmentSum(ip, Len(ip))

\* a faulty pseudo-header that counts the length of data alone
PseudoHeaderDataLenOnly(srcsum, dstsum, proto, d, extra) ==
    Add32(Add32(Add32(srcsum, dstsum), AsU32(proto)), AsU32(Len(d)))

\* sum += source words; sum += destination words; sum += protocol; sum += len
PseudoHeader(srcsum, dstsum, proto, d, extra) ==
    Add32(Add32(Add32(srcsum, dstsum), AsU32(proto)), AsU32(Len(d) + Len(extra)))

\* sum += sum_be_words(data, skipword);
\* sum += sum_be_words(extra_data, extra_data.len() / 2);
\* finalize_checksum(sum)
\* The first call runs to its end before the second starts: a fault of the
\* first is the outcome of the whole call.
PseudoChecksum(pseudo, d, skip, al, extra, eal, be) ==
    UNION { IF o1.kind # "value"
            THEN {Propagated(o1)}
            ELSE { IF o2.kind # "value"
                   THEN Propagated(o2)
                   ELSE Value(finalize_checksum(Add32(Add32(pseudo, o1.val), o2.val)))
                   : o2 \in sum_be_words(extra, Len(extra) \div 2, eal, be) }
            : o1 \in sum_be_words(d, skip, al, be) }

ipv4_checksum(d, skip, al, extra, eal, src, dst, proto, be) ==
    PseudoChecksum(PseudoHeader(ipv4_word_sum(src), ipv4_word_sum(dst), proto, d, extra),
                   d, skip, al, extra, eal, be)

ipv6_checksum(d, skip, al, extra, eal, src, dst, proto, be) ==
    PseudoChecksum(PseudoHeader(ipv6_word_sum(src), ipv6_word_sum(dst), proto, d, extra),
                   d, skip, al, extra, eal, be)

----------------------------------------------------------------------------
(* Spec: one buffer, sum_be_words and checksum, and the caller's round trip *)

Init ==
    /\ data \in SeqsUpTo(DataBytes, MaxData)
    /\ skipword \in 0..MaxSkip
    /\ aligned \in BOOLEAN
    /\ big_endian \in BOOLEAN
    /\ pc = "start"
    /\ result = Unused
    /\ buffer = Unused
    /\ verify = Unused
    /\ extra_data = Unused /\ extra_aligned = Unused /\ family = Unused
    /\ source = Unused /\ destination = Unused /\ next_level_protocol = Unused
    /\ joined = Unused
    /\ sum = Unused /\ sum_in = Unused /\ iters = Unused
    /\ text = Unused /\ addr = Unused /\ shown = Unused /\ reparsed = Unused

inputs == <<data, skipword, aligned, big_endian, extra_data, extra_aligned>>
pseudo_vars == <<family, source, destination, next_level_protocol, joined>>
finalize_vars == <<sum, sum_in, iters>>
mac_vars == <<text, addr, shown, reparsed>>

\* a call of sum_be_words(data, skipword)
CallSumBeWords ==
    /\ pc = "start"
    /\ result' \in sum_be_words(data, skipword, aligned, big_endian)
    /\ pc' = "summed"
    /\ UNCHANGED <<inputs, buffer, verify, pseudo_vars, finalize_vars, mac_vars>>

\* a call of checksum(data, skipword)
CallChecksum ==
    /\ pc = "start"
    /\ result' \in checksum(data, skipword, aligned, big_endian)
    /\ pc' = "checksummed"
    /\ UNCHANGED <<inputs, buffer, verify, pseudo_vars, finalize_vars, mac_vars>>

\* the buffer with the 16-bit value c written big endian at word offset skip
WithChecksumField(d, skip, c) ==
    [k \in 1..Len(d) |->
        IF k = 2 * skip + 1 THEN c \div U8
        ELSE IF k = 2 * skip + 2 THEN c % U8
        ELSE d[k]]

\* the caller writes the returned u16be into the checksum field, the two
\* bytes starting at skipword * 2
WriteChecksum ==
    /\ pc = "checksummed"
    /\ result.kind = "value"
    /\ skipword < Len(data) \div 2
    /\ buffer' = WithChecksumField(data, skipword, result.val)
    /\ pc' = "written"
    /\ UNCHANGED <<inputs, result, verify, pseudo_vars, finalize_vars, mac_vars>>

\* the caller re-runs checksum over the written buffer with no word excluded
VerifyChecksum ==
    /\ pc = "written"
    /\ verify' \in checksum(buffer, Len(buffer) \div 2, aligned, big_endian)
    /\ pc' = "verified"
    /\ UNCHANGED <<inputs, result, buffer, pseudo_vars, finalize_vars, mac_vars>>

Next == CallSumBeWords \/ CallChecksum \/ WriteChecksum \/ VerifyChecksum

Spec == Init /\ [][Next]_vars

----------------------------------------------------------------------------
(* SpecPseudo: checksum, ipv4_checksum and ipv6_checksum on data and       *)
(* extra_data, and the same call on the one buffer data ++ extra_data      *)

\* <<source, destination>> pairs of Ipv4Addr octets
Ipv4Pairs == { << <<192, 168, 0, 1>>, <<10, 0, 0, 255>> >>,
               << <<255, 255, 255, 255>>, <<255, 255, 255, 254>> >> }

\* <<source, destination>> pairs of Ipv6Addr segments
Ipv6Pairs == { << <<8193, 3512, 0, 0, 0, 0, 0, 1>>, <<65152, 0, 0, 0, 0, 0, 0, 2>> >>,
               << <<65535, 65535, 65535, 65535, 65535, 65535, 65535, 65535>>,
                  <<65535, 65535, 65535, 65535, 65535, 65535, 65535, 65534>> >> }

\* IpNextHeaderProtocol values: Tcp, Udp
Protocols == {6, 17}

InitPseudo ==
    /\ data \in SeqsUpTo(PseudoBytes, MaxData)
    /\ extra_data \in SeqsUpTo(PseudoBytes, MaxExtra)
    /\ skipword \in 0..MaxSkip
    /\ aligned \in BOOLEAN
    /\ extra_aligned \in BOOLEAN
    /\ big_endian \in BOOLEAN
    /\ pc = "start"
    /\ result = Unused
    /\ buffer = Unused /\ verify = Unused
    /\ family = Unused
    /\ source = Unused /\ destination = Unused /\ next_level_protocol = Unused
    /\ joined = Unused
    /\ sum = Unused /\ sum_in = Unused /\ iters = Unused
    /\ text = Unused /\ addr = Unused /\ shown = Unused /\ reparsed = Unused

\* a call of ipv4_checksum(data, skipword, extra_data, source, destination, protocol)
CallIpv4Checksum ==
    /\ pc = "start"
    /\ \E p \in Ipv4Pairs, proto \in Protocols :
          /\ source' = p[1]
          /\ destination' = p[2]
          /\ next_level_protocol' = proto
          /\ result' \in ipv4_checksum(data, skipword, aligned, extra_data, extra_aligned,
                                       p[1], p[2], proto, big_endian)
    /\ family' = "ipv4"
    /\ pc' = "split_done"
    /\ UNCHANGED <<inputs, buffer, verify, joined, finalize_vars, mac_vars>>

\* a call of ipv6_checksum(data, skipword, extra_data, source, destination, protocol)
CallIpv6Checksum ==
    /\ pc = "start"
    /\ \E p \in Ipv6Pairs, proto \in Protocols :
          /\ source' = p[1]
          /\ destination' = p[2]
          /\ next_level_protocol' = proto
          /\ result' \in ipv6_checksum(data, skipword, aligned, extra_data, extra_aligned,
                                       p[1], p[2], proto, big_endian)
    /\ family' = "ipv6"
    /\ pc' = "split_done"
    /\ UNCHANGED <<inputs, buffer, verify, joined, finalize_vars, mac_vars>>

\* the outcomes of the same function on one buffer b, with no extra data; the
\* alignment of b and of the empty slice are whatever the caller's are
JoinedOutcomes(b) ==
    UNION { IF family = "ipv4"
            THEN ipv4_checksum(b, skipword, al, <<>>, eal,
                               source, destination, next_level_protocol, big_endian)
            ELSE ipv6_checksum(b, skipword, al, <<>>, eal,
                               source, destination, next_level_protocol, big_endian)
            : al \in BOOLEAN, eal \in BOOLEAN }

\* the caller repeats the call with data followed by extra_data as data, the
\* same skipword and an empty extra_data
CallJoined ==
    /\ pc = "split_done"
    /\ skipword <= Len(data) \div 2
    /\ joined' \in JoinedOutcomes(data \o extra_data)
    /\ pc' = "joined_done"
    /\ UNCHANGED <<inputs, result, buffer, verify, family, source, destination,
                   next_level_protocol, finalize_vars, mac_vars>>

NextPseudo == CallChecksum \/ CallIpv4Checksum \/ CallIpv6Checksum \/ CallJoined

SpecPseudo == InitPseudo /\ [][NextPseudo]_vars

----------------------------------------------------------------------------
(* SpecFinalize: finalize_checksum(sum), one iteration of its loop per step *)

HalfSamples ==
    (0..SumSpread) \cup ((32768 - SumSpread)..(32768 + SumSpread))
                   \cup ((65535 - SumSpread)..65535)

InitFinalize ==
    /\ sum_in \in HalfSamples \X HalfSamples
    /\ sum = sum_in
    /\ iters = 0
    /\ pc = "loop"
    /\ result = Unused
    /\ data = Unused /\ skipword = Unused /\ aligned = Unused /\ big_endian = Unused
    /\ extra_data = Unused /\ extra_aligned = Unused
    /\ buffer = Unused /\ verify = Unused
    /\ family = Unused
    /\ source = Unused /\ destination = Unused /\ next_level_protocol = Unused
    /\ joined = Unused
    /\ text = Unused /\ addr = Unused /\ shown = Unused /\ reparsed = Unused

\* while sum >> 16 != 0 { sum = (sum >> 16) + (sum & 0xFFFF); }
FoldIteration ==
    /\ pc = "loop"
    /\ FoldCond(sum)
    /\ sum' = FoldStep(sum)
    /\ iters' = iters + 1
    /\ UNCHANGED <<pc, result, sum_in, inputs, buffer, verify, pseudo_vars, mac_vars>>

\* !sum as u16
FinalizeReturn ==
    /\ pc = "loop"
    /\ ~FoldCond(sum)
    /\ result' = NotAsU16(sum)
    /\ pc' = "done"
    /\ UNCHANGED <<sum, sum_in, iters, inputs, buffer, verify, pseudo_vars, mac_vars>>

NextFinalize == FoldIteration \/ FinalizeReturn

\* the loop is straight-line code: a call that can take a step takes it
SpecFinalize == InitFinalize /\ [][NextFinalize]_vars /\ WF_vars(NextFinalize)

----------------------------------------------------------------------------
(* MacAddr: strings are sequences of one-character strings *)

LowerHex == <<"0", "1", "2", "3", "4", "5", "6", "7", "8", "9",
              "a", "b", "c", "d", "e", "f">>
UpperHex == <<"0", "1", "2", "3", "4", "5", "6", "7", "8", "9",
              "A", "B", "C", "D", "E", "F">>

\* char::to_digit(16): the value of a hexadecimal digit of either case, -1
\* for None
to_digit(c) ==
    IF \E k \in 1..16 : LowerHex[k] = c
    THEN (CHOOSE k \in 1..16 : LowerHex[k] = c) - 1
    ELSE IF \E k \in 1..16 : UpperHex[k] = c
         THEN (CHOOSE k \in 1..16 : UpperHex[k] = c) - 1
         ELSE -1

ParseOk(v) == [ok |-> TRUE, val |-> v]
ParseErr == [ok |-> FALSE, val |-> 0]

\* the digit loop of from_str_radix: result = result.checked_mul(16)
\* .checked_add(digit), an error on a non-digit and on overflow of u8
RECURSIVE DigitLoop(_, _, _)
DigitLoop(digits, k, acc) ==
    IF k > Len(digits) THEN ParseOk(acc)
    ELSE LET x == to_digit(digits[k])
         IN  IF x = -1 THEN ParseErr
             ELSE IF acc * 16 + x >= U8 THEN ParseErr
             ELSE DigitLoop(digits, k + 1, acc * 16 + x)

\* u8::from_str_radix(src, 16): an error on the empty string, one leading
\* "+" is dropped (a "-" is no digit of an unsigned type), an error if nothing
\* follows the sign, then the digit loop
u8_from_str_radix(src) ==
    IF Len(src) = 0 THEN ParseErr
    ELSE LET digits == IF src[1] = "+" THEN Tail(src) ELSE src
         IN  IF Len(digits) = 0 THEN ParseErr ELSE DigitLoop(digits, 1, 0)

\* s.split(':'): the pieces between the colons, one more than there are colons
RECURSIVE SplitLoop(_, _, _, _)
SplitLoop(s, k, piece, pieces) ==
    IF k > Len(s) THEN Append(pieces, piece)
    ELSE IF s[k] = ":" THEN SplitLoop(s, k + 1, <<>>, Append(pieces, piece))
    ELSE SplitLoop(s, k + 1, Append(piece, s[k]), pieces)

Split(s) == SplitLoop(s, 1, <<>>, <<>>)

Ok(mac) == [kind |-> "Ok", mac |-> mac]
Err(e) == [kind |-> e, mac |-> <<>>]

\* MacAddr::new
MacAddr_new(a, b, c, d, e, f) == <<a, b, c, d, e, f>>

\* the for loop of from_str over the splits, i components stored so far, and
\* the test of i after it
RECURSIVE ForSplits(_, _, _, _)
ForSplits(splits, k, i, parts) ==
    IF k > Len(splits)
    THEN IF i = 6
         THEN Ok(MacAddr_new(parts[1], parts[2], parts[3], parts[4], parts[5], parts[6]))
         ELSE Err("TooFewComponents")
    ELSE IF i = 6 THEN Err("TooManyComponents")
    ELSE LET b == u8_from_str_radix(splits[k])
         IN  IF b.ok /\ Len(splits[k]) # 0
             THEN ForSplits(splits, k + 1, i + 1, [parts EXCEPT ![i + 1] = b.val])
             ELSE Err("InvalidComponent")

\* <MacAddr as FromStr>::from_str
from_str(s) == ForSplits(Split(s), 1, 0, <<0, 0, 0, 0, 0, 0>>)

\* a faulty {:x}: no zero padding to two digits
Fmt02xNoPadding(b) ==
    IF b < 16 THEN <<LowerHex[b + 1]>>
    ELSE <<LowerHex[(b \div 16) + 1], LowerHex[(b % 16) + 1]>>

\* {:02x} of a u8: two lowercase hexadecimal digits
Fmt02x(b) == <<LowerHex[(b \div 16) + 1], LowerHex[(b % 16) + 1]>>

\* <MacAddr as Display>::fmt
Display(mac) ==
    Fmt02x(mac[1]) \o <<":">> \o Fmt02x(mac[2]) \o <<":">> \o Fmt02x(mac[3]) \o <<":">>
    \o Fmt02x(mac[4]) \o <<":">> \o Fmt02x(mac[5]) \o <<":">> \o Fmt02x(mac[6])

----------------------------------------------------------------------------
(* SpecMac: from_str on an input string, MacAddr::new, Display, and        *)
(* from_str on what Display wrote                                          *)

\* the component most components of an input are
PlainComponent == <<"1", "2">>

\* the other components an input is built from
UnusualComponents ==
    { <<>>, <<"0">>, <<"F">>, <<"a", "b">>, <<"f", "F">>, <<"0", "0">>, <<"9", "g">>,
      <<"+", "1">>, <<"-", "1">>, <<"0", "0", "1">>, <<"1", "0", "0">>, <<"+">> }

\* the byte most bytes of a new MacAddr are, and the others
PlainByte == 16 + 2
UnusualBytes == {0, 9, 10, 15, 16, 171, 255}

\* the sets of at most MaxUnusual positions among 1..n
UnusualPositions(n) == {Q \in SUBSET (1..n) : Cardinality(Q) <= MaxUnusual}

\* the sequence of length n that is f at the positions P and plain elsewhere
Mostly(plain, P, f, n) == [k \in 1..n |-> IF k \in P THEN f[k] ELSE plain]

\* the components joined by colons
RECURSIVE Join(_)
Join(cs) ==
    IF Len(cs) = 0 THEN <<>>
    ELSE IF Len(cs) = 1 THEN cs[1]
    ELSE cs[1] \o <<":">> \o Join(Tail(cs))

InitMac ==
    /\ pc = "start"
    /\ text = Unused /\ addr = Unused /\ shown = Unused /\ reparsed = Unused
    /\ result = Unused
    /\ data = Unused /\ skipword = Unused /\ aligned = Unused /\ big_endian = Unused
    /\ extra_data = Unused /\ extra_aligned = Unused
    /\ buffer = Unused /\ verify = Unused
    /\ family = Unused
    /\ source = Unused /\ destination = Unused /\ next_level_protocol = Unused
    /\ joined = Unused
    /\ sum = Unused /\ sum_in = Unused /\ iters = Unused

checksum_vars == <<inputs, result, buffer, verify, pseudo_vars, finalize_vars>>

\* s.parse::<MacAddr>() on an input string
CallFromStr ==
    /\ pc = "start"
    /\ \E n \in 1..MaxComponents :
          \E P \in UnusualPositions(n) :
             \E f \in [P -> UnusualComponents] :
                LET s == Join(Mostly(PlainComponent, P, f, n))
                IN  /\ text' = s
                    /\ addr' = from_str(s)
    /\ pc' = "parsed"
    /\ UNCHANGED <<shown, reparsed, checksum_vars>>

\* MacAddr::new(a, b, c, d, e, f)
CallNew ==
    /\ pc = "start"
    /\ \E P \in UnusualPositions(6) :
          \E f \in [P -> UnusualBytes] :
             LET m == Mostly(PlainByte, P, f, 6)
             IN  addr' = Ok(MacAddr_new(m[1], m[2], m[3], m[4], m[5], m[6]))
    /\ pc' = "constructed"
    /\ UNCHANGED <<text, shown, reparsed, checksum_vars>>

\* format!("{}", mac) on the address parsed or constructed
CallDisplay ==
    /\ pc \in {"parsed", "constructed"}
    /\ addr.kind = "Ok"
    /\ shown' = Display(addr.mac)
    /\ pc' = "shown"
    /\ UNCHANGED <<text, addr, reparsed, checksum_vars>>

\* the formatted string parsed again
CallReparse ==
    /\ pc = "shown"
    /\ reparsed' = from_str(shown)
    /\ pc' = "reparsed"
    /\ UNCHANGED <<text, addr, shown, checksum_vars>>

NextMac == CallFromStr \/ CallNew \/ CallDisplay \/ CallReparse

SpecMac == InitMac /\ [][NextMac]_vars

----------------------------------------------------------------------------
(* Reference computations, written without the code's loops, byte order    *)
(* conversion and 32-bit pairs.                                            *)

\* the big-endian word at word offset i (0-based)
RefWord(d, i) == d[2 * i + 1] * 256 + d[2 * i + 2]

\* the sum of the whole words from offset i on, the one at skip counted as 0
RECURSIVE RefWordSum(_, _, _)
RefWordSum(d, skip, i) ==
    IF i >= Len(d) \div 2 THEN 0
    ELSE (IF i = skip THEN 0 ELSE RefWord(d, i)) + RefWordSum(d, skip, i + 1)

RefSum(d, skip) ==
    RefWordSum(d, skip, 0) + (IF Len(d) % 2 = 1 THEN d[Len(d)] * 256 ELSE 0)

\* the end-around-carry fold of n in closed form: 0 for 0, else the
\* representative of n modulo 0xFFFF in 1..0xFFFF
RefFold(n) == IF n = 0 THEN 0 ELSE ((n - 1) % 65535) + 1

RefFinalize(n) == 65535 - RefFold(n)

----------------------------------------------------------------------------
(* Claims checked under Spec *)

\* C1 as stated: once the checksum returned by checksum(buffer, skipword) is
\* written big endian at byte offset 2*skipword, the value checksum returns
\* over the full buffer with no word excluded is 0xFFFF.
C1_RoundTripYieldsAllOnes ==
    (pc = "verified" /\ verify.kind = "value") => verify.val = 65535

\* C1 as amended: the re-run over the written buffer yields 0x0000 (the words
\* of the written buffer fold to 0xFFFF, and checksum returns the complement);
\* the only other outcome is the fault of the misaligned word view, on a
\* buffer that is not 2-byte aligned.
C1_RoundTripYieldsZero ==
    pc = "verified" =>
        \/ verify = Value(0)
        \/ (~aligned /\ verify = MisalignedFault)

\* C1's case: an odd-length buffer whose field held a nonzero value, a
\* checksum that is neither 0 nor 0xFFFF written back, and the re-run done.
C1_RoundTripWitness ==
    /\ pc = "verified"
    /\ Len(data) % 2 = 1
    /\ RefWord(data, skipword) # 0
    /\ result.val \notin {0, 65535}
    /\ verify = Value(0)

\* C2 as stated: for every buffer and every skip <= len/2, sum_be_words
\* returns the sum of the big-endian words at offsets other than skip, plus
\* the last byte << 8 when the length is odd.
C2_SumMatchesReference ==
    (pc = "summed" /\ skipword <= Len(data) \div 2) =>
        /\ result.kind = "value"
        /\ result.val = AsU32(RefSum(data, skipword))

\* What does hold of sum_be_words: on a 2-byte aligned buffer it returns the
\* reference sum, and on any buffer it returns that sum if it returns.
SumMatchesReferenceWhenAligned ==
    (pc = "summed" /\ skipword <= Len(data) \div 2) =>
        /\ aligned => result.kind = "value"
        /\ result.kind = "value" => result.val = AsU32(RefSum(data, skipword))

----------------------------------------------------------------------------
(* Claims checked under SpecPseudo *)

\* the words of an address: two words of the four octets of an Ipv4Addr, the
\* eight segments of an Ipv6Addr
RefAddressSum(fam, ip) ==
    IF fam = "ipv4"
    THEN (ip[1] * 256 + ip[2]) + (ip[3] * 256 + ip[4])
    ELSE ip[1] + ip[2] + ip[3] + ip[4] + ip[5] + ip[6] + ip[7] + ip[8]

\* the manual computation of the pseudo-header checksum
RefPseudoChecksum ==
    RefFinalize(RefAddressSum(family, source) + RefAddressSum(family, destination)
                + next_level_protocol + Len(data) + Len(extra_data)
                + RefSum(data, skipword)
                + RefSum(extra_data, Len(extra_data) \div 2))

\* C4 as stated: for every data, extra_data, addresses, protocol and
\* skipword <= len(data)/2, ipv4_checksum and ipv6_checksum return the
\* finalized sum of address words, protocol, lengths and the two word sums.
C4_PseudoMatchesManual ==
    (pc = "split_done" /\ skipword <= Len(data) \div 2) =>
        result = Value(RefPseudoChecksum)

\* What does hold of ipv4_checksum and ipv6_checksum: with both buffers 2-byte
\* aligned they return the manual computation, and with any buffers they
\* return it if they return.
PseudoMatchesManualWhenAligned ==
    (pc = "split_done" /\ skipword <= Len(data) \div 2) =>
        /\ (aligned /\ extra_aligned) => result.kind = "value"
        /\ result.kind = "value" => result.val = RefPseudoChecksum

\* C5: a call of checksum, ipv4_checksum or ipv6_checksum with
\* skipword > len(data)/2 returns no checksum: it ends in the failed
\* assertion (or, on a misaligned buffer, in the fault that precedes the
\* assertion). With skipword <= len(data)/2 the assertion never fails, neither
\* for data nor for extra_data summed with skip index len(extra_data)/2.
C5_SkipOutOfRangeIsFatal ==
    pc \in {"checksummed", "split_done"} =>
        /\ skipword > Len(data) \div 2 =>
              /\ result.kind # "value"
              /\ (aligned => result = AssertFailed)
              /\ result \in {AssertFailed, MisalignedFault}
        /\ skipword <= Len(data) \div 2 => result.kind # "assert_failed"

\* C5's case: ipv4_checksum called with a skipword beyond the whole words of
\* data has ended in the failed assertion.
C5_SkipOutOfRangeWitness ==
    /\ pc = "split_done"
    /\ family = "ipv4"
    /\ skipword > Len(data) \div 2
    /\ result = AssertFailed

\* C10 as stated: for every data, extra_data and skipword < len(data)/2 the
\* checksum of (data, skipword, extra_data) equals the checksum of
\* (data ++ extra_data, skipword, empty), whatever the lengths.
C10_SplitEqualsJoined ==
    (/\ pc = "joined_done"
     /\ skipword < Len(data) \div 2
     /\ result.kind = "value"
     /\ joined.kind = "value") => joined.val = result.val

\* C10 as amended: the two calls agree whenever len(data) is even or extra_data
\* is empty; the only other outcome of either call is the fault of the
\* misaligned word view.
C10_SplitEqualsJoinedEvenData ==
    (/\ pc = "joined_done"
     /\ skipword < Len(data) \div 2
     /\ (Len(data) % 2 = 0 \/ extra_data = <<>>)) =>
        \/ joined = result
        \/ result = MisalignedFault
        \/ joined = MisalignedFault

\* C10's case: even-length data with its checksum field excluded, extra_data
\* of odd length, and both calls returned the same checksum.
C10_SplitEqualsJoinedWitness ==
    /\ pc = "joined_done"
    /\ skipword < Len(data) \div 2
    /\ Len(data) % 2 = 0
    /\ Len(extra_data) % 2 = 1
    /\ result.kind = "value"
    /\ joined = result

----------------------------------------------------------------------------
(* Claims checked under SpecFinalize *)

\* the fully folded value of the u32 <<hi, lo>>: hi * 2^16 + lo is congruent
\* to hi + lo modulo 0xFFFF, and is 0 only when both are
RefFold32(s) == RefFold(s[1] + s[2])

\* C3: for every 32-bit sum the fold loop of finalize_checksum ends, after at
\* most two iterations, in a value below 2^16; a value that fits in 16 bits
\* is left unchanged by the fold; and the result is the complement, truncated
\* to 16 bits, of the fully folded value.
C3_FinalizeFoldsAndComplements ==
    /\ <>(pc = "done")
    /\ [](iters <= 2)
    /\ [](~FoldCond(sum) => FoldStep(sum) = sum)
    /\ [](pc = "done" => /\ sum[1] = 0
                         /\ sum[2] = RefFold32(sum_in)
                         /\ result = 65535 - RefFold32(sum_in))

\* C3's case: a sum whose first fold overflows 16 bits again (0xFFFF_FFFF and
\* its like) has been folded twice and finalized.
C3_FinalizeWitness ==
    /\ pc = "done"
    /\ iters = 2
    /\ sum_in[1] = 65535
    /\ result = 0

----------------------------------------------------------------------------
(* Claims checked under SpecMac *)

HexChars == {LowerHex[k] : k \in 1..16} \cup {UpperHex[k] : k \in 1..16}
LowerHexChars == {LowerHex[k] : k \in 1..16}

\* a component of the documented text format: 1 or 2 hexadecimal digits
DocComponent(c) == Len(c) \in {1, 2} /\ \A k \in 1..Len(c) : c[k] \in HexChars

\* the documented text format: exactly 6 colon-separated such components
DocFormat(s) ==
    LET cs == Split(s)
    IN  Len(cs) = 6 /\ \A k \in 1..6 : DocComponent(cs[k])

\* whether one of the first six components is not of the documented format
FirstSixHaveInvalid(cs) ==
    \E k \in 1..Len(cs) : k <= 6 /\ ~DocComponent(cs[k])

\* C6 as stated: from_str returns Ok if and only if the input splits into
\* exactly 6 components of 1 or 2 hexadecimal digits each; a component among
\* the first six that is empty, longer than 2 characters or holds a character
\* that is no hexadecimal digit (a sign included) gives InvalidComponent.
C6_AcceptsExactlyDocumentedFormat ==
    pc = "parsed" =>
        /\ addr.kind = "Ok" <=> DocFormat(text)
        /\ FirstSixHaveInvalid(Split(text)) => addr.kind = "InvalidComponent"

\* What does hold of from_str: every string of the documented format is
\* accepted, and an accepted string has exactly 6 components.
DocumentedFormatIsAccepted ==
    pc = "parsed" =>
        /\ DocFormat(text) => addr.kind = "Ok"
        /\ addr.kind = "Ok" => Len(Split(text)) = 6

\* C7 as stated: with six valid components and a 7th present the result is
\* TooManyComponents whatever the 7th and later components hold; with an
\* invalid component among the first six the result is InvalidComponent, also
\* when the input has seven or more components.
C7_TooManyAfterSixValid ==
    pc = "parsed" =>
        LET cs == Split(text)
        IN  /\ (Len(cs) >= 7 /\ ~FirstSixHaveInvalid(cs)) =>
                  addr.kind = "TooManyComponents"
            /\ FirstSixHaveInvalid(cs) => addr.kind = "InvalidComponent"

\* What does hold of the scan: the count check comes before the parse of the
\* 7th component, and a component among the first six that the component
\* parse of from_str rejects gives InvalidComponent.
CountCheckPrecedesSeventhParse ==
    pc = "parsed" =>
        LET cs == Split(text)
            rejected(c) == ~(u8_from_str_radix(c).ok /\ Len(c) # 0)
        IN  /\ (Len(cs) >= 7 /\ ~FirstSixHaveInvalid(cs)) =>
                  addr.kind = "TooManyComponents"
            /\ (\E k \in 1..Len(cs) : k <= 6 /\ rejected(cs[k])) =>
                  addr.kind = "InvalidComponent"

\* C8 as stated: from_str returns TooFewComponents if and only if the input
\* splits into fewer than 6 components, all of them valid; an input of at most
\* 6 components that ends in an empty component gives InvalidComponent; and a
\* failing parse returns no address.
C8_TooFewIffShortAndValid ==
    pc = "parsed" =>
        LET cs == Split(text)
        IN  /\ addr.kind = "TooFewComponents" <=>
                  (Len(cs) < 6 /\ ~FirstSixHaveInvalid(cs))
            /\ (Len(cs) <= 6 /\ cs[Len(cs)] = <<>>) => addr.kind = "InvalidComponent"
            /\ addr.kind # "Ok" => addr.mac = <<>>

\* What does hold: fewer than 6 components of the documented format give
\* TooFewComponents, TooFewComponents is only given for fewer than 6
\* components, and a trailing empty component among the first six gives
\* InvalidComponent.
TooFewOnlyWhenShort ==
    pc = "parsed" =>
        LET cs == Split(text)
        IN  /\ (Len(cs) < 6 /\ ~FirstSixHaveInvalid(cs)) => addr.kind = "TooFewComponents"
            /\ addr.kind = "TooFewComponents" => Len(cs) < 6
            /\ (Len(cs) <= 6 /\ cs[Len(cs)] = <<>>) => addr.kind = "InvalidComponent"

\* a text of six groups of exactly 2 lowercase hexadecimal digits
TwoDigitLower(s) ==
    /\ Len(s) = 17
    /\ \A k \in 1..17 : IF k % 3 = 0 THEN s[k] = ":" ELSE s[k] \in LowerHexChars

UpperChar(c) ==
    IF \E k \in 1..16 : LowerHex[k] = c
    THEN UpperHex[CHOOSE k \in 1..16 : LowerHex[k] = c]
    ELSE c

\* s with every letter, or only the character at k, in uppercase
UpperAll(s) == [k \in 1..Len(s) |-> UpperChar(s[k])]
UpperAt(s, j) == [k \in 1..Len(s) |-> IF k = j THEN UpperChar(s[k]) ELSE s[k]]

\* C9: a text of six 2-digit lowercase groups is parsed and formatted back to
\* itself; the text with letters in uppercase parses to the same address;
\* Display always writes six zero-padded 2-digit lowercase groups; and what
\* Display writes for an address parses back to that address.
C9_FormatParseRoundTrip ==
    /\ (pc = "parsed" /\ TwoDigitLower(text)) =>
          /\ addr.kind = "Ok"
          /\ from_str(UpperAll(text)) = addr
          /\ \A j \in 1..Len(text) : from_str(UpperAt(text, j)) = addr
    /\ (pc \in {"shown", "reparsed"} /\ text # Unused /\ TwoDigitLower(text)) =>
          shown = text
    /\ pc \in {"shown", "reparsed"} => TwoDigitLower(shown)
    /\ pc = "reparsed" => reparsed = addr

\* C9's case: an address with a byte below 0x10 and a byte with hexadecimal
\* letters was constructed, formatted and parsed back.
C9_RoundTripWitness ==
    /\ pc = "reparsed"
    /\ text = Unused
    /\ \E j, k \in 1..6 : addr.mac[j] = 9 /\ addr.mac[k] = 171
    /\ reparsed = addr

\* C9's other case: a 2-digit lowercase text with letters was parsed and
\* formatted back to itself.
TextRoundTripReached ==
    /\ pc = "shown"
    /\ text # Unused
    /\ TwoDigitLower(text)
    /\ \E k \in 1..17 : text[k] = "b"
    /\ shown = text

====
